---------------------------- MODULE Spec2Model ----------------------------
(***************************************************************************)
(* Model of the SCMS simulator core (src/nlogo): World, Customer, Bank and *)
(* Fund, and the module-level pseudo-random generator they all draw from.  *)
(*                                                                         *)
(* Representation of the program's floats (fixed point, exact integers):   *)
(*   money                            ticks, Unit ticks = 1 currency unit  *)
(*   d_contribution, share            1/Scale                              *)
(*   insolvency_fraction, compensation_share, lamda, alpha_1, alpha_2      *)
(*                                    1/Milli                              *)
(*   b_risk, std_premium, std_contribution                                 *)
(*                                    1/(30*Milli): one payment day = Milli*)
(* Parameters are integers: base_rate and premium_increment in 1/100 of a  *)
(* percent (0.2 % = 20), p_day_response and premium_response in 1/Milli,   *)
(* the other percentages in whole percent.  A float division becomes a     *)
(* floor division in these units.                                          *)
(***************************************************************************)
EXTENDS Integers, Sequences, FiniteSets, TLC

VARIABLES
    rng,      \* state of the process-wide generator of module `random`
    worlds,   \* the World instances of the process, WorldIds -> World
    hist,     \* per World: the snapshots a run driver collected, in order
    snap,     \* per World: the snapshots its get_state() calls returned since
              \* the last other call on it, in order
    ret,      \* per World: what its last step() call returned ("none" before)
    last,     \* the last operation executed: [op, w]
    calls     \* per World: how many setup() / set_random_seed() calls so far,
              \* and how many step() calls since the last setup()

vars == <<rng, worlds, hist, snap, ret, last, calls>>

----------------------------------------------------------------------------
(* Bounds of the model *)

MaxMonth == 6       \* step() is called while month < MaxMonth
MaxSetups == 2      \* setup() calls per World
MaxSeed == 2        \* seeds a caller passes to set_random_seed: 1..MaxSeed
MaxEntropy == 1     \* entropy-seeded start states of the generator: 0..MaxEntropy
MaxPreSteps == 1    \* step() calls on a World before its first setup()
MaxRunMonth == 3    \* months a run driver steps each of its Worlds
MaxReads == 2       \* get_state() calls in a row on a World
MaxAmount == 10     \* ledger amounts handed to calculate_shares and
                    \* calculate_fund: 0..MaxAmount, in tens of units

Unit == 100
Milli == 1000
Scale == 10000

WorldIds == {1, 2}

----------------------------------------------------------------------------
(* The generator of module `random`: one deterministic stream per process. *)

RngMod == 65536

\* the generator state after producing one value
NextRng(g) == (25173 * g + 13849) % RngMod

\* the value the generator produces in state g: 0 .. 255
Raw(g) == g \div 256

\* random.seed(n)
SeedState(n) == ((n % RngMod) * 7919 + 104729) % RngMod

\* the generator states a process can start in (seeded from OS entropy)
EntropyState(e) == (e * 12345 + 6789) % RngMod

\* random.randint(a, b) in state g, for a <= b
RandInt(g, a, b) == a + (Raw(g) * (b - a + 1)) \div 256

\* random.uniform(0, 1) in state g, in 1/256: a value in [0, 1)
Uniform256(g) == Raw(g)

\* min(a, b), max(a, b)
Min(a, b) == IF a < b THEN a ELSE b
Max(a, b) == IF a > b THEN a ELSE b

\* Python round(n / d) for n >= 0, d > 0: round half to even
RoundHalfEven(n, d) ==
    LET q == n \div d
        r == n % d
    IN  IF 2 * r < d THEN q
        ELSE IF 2 * r > d THEN q + 1
        ELSE IF q % 2 = 0 THEN q ELSE q + 1

\* sum of f[i] for i in 1..n
RECURSIVE SumTo(_, _)
SumTo(f, n) == IF n = 0 THEN 0 ELSE f[n] + SumTo(f, n - 1)

SumSeq(s) == SumTo(s, Len(s))

\* int(math.sqrt(n))
RECURSIVE ISqrtFrom(_, _)
ISqrtFrom(n, k) == IF (k + 1) * (k + 1) > n THEN k ELSE ISqrtFrom(n, k + 1)
ISqrt(n) == ISqrtFrom(n, 0)

----------------------------------------------------------------------------
(* Customer *)

\* Customer.__init__
NewCustomer(id, x, y) ==
    [ i |-> id, x |-> x, y |-> y,
      installment |-> 0, duration |-> 0, debt |-> 0, cum_debt |-> 0,
      gross_debt |-> 0, performing_debt |-> 0, non_performing_debt |-> 0,
      patch_month |-> 1, financing_round |-> 1, count_new_debt |-> 0,
      patch_new_debt |-> 0, status |-> 0,
      shock |-> 0, insolvency_fraction |-> 0,
      paid_contribution |-> 0, cum_paid_contribution |-> 0,
      cumulative_installment |-> 0, unpaid_contribution |-> 0,
      paid_installment |-> 0, cum_paid_installment |-> 0,
      deficit |-> 0, cumulative_deficit |-> 0, balance |-> 0,
      compensation_share |-> 0, compensation_received |-> 0,
      cum_compensation |-> 0, additional_compensation |-> 0, share |-> 0,
      d |-> 0, p_day |-> 0, day |-> 0, b_risk |-> 0,
      lamda |-> 0, alpha_1 |-> 0, alpha_2 |-> 0,
      d_contribution |-> 0, std_contribution |-> 0, std_premium |-> 0,
      points |-> 0,
      membership |-> 1, on_time_payment |-> 0, late_payment |-> 0,
      neighbors |-> << >> ]

\* the ACTIVE predicate every pass re-checks:
\* patch_month <= duration and membership == 1
IsActive(c) == c.patch_month <= c.duration /\ c.membership = 1

\* Customer.setup_financing on r = [c, g], the customer and the generator:
\* two draws
SetupFinancing(r, p) ==
    LET g1 == NextRng(r.g)
        inst == (p.min_installment
                   + RandInt(r.g, 0, p.max_installment - p.min_installment))
                * Unit
        dur == p.min_periods + RandInt(g1, 0, p.max_periods - p.min_periods)
    IN  [ c |-> [r.c EXCEPT !.installment = inst,
                            !.duration = dur,
                            !.debt = inst * dur,
                            !.cum_debt = r.c.cum_debt + inst * dur,
                            !.gross_debt = inst * dur,
                            !.performing_debt = inst * dur],
          g |-> NextRng(g1) ]

\* setup_financing hands random.randint(0, max - min) an empty range, which
\* raises ValueError
BoundsInverted(p) ==
    p.max_installment < p.min_installment \/ p.max_periods < p.min_periods

\* Customer.setup_financing on r as the ValueError leaves it: raised by the
\* first randint nothing is assigned and nothing drawn, raised by the second
\* the installment is assigned and one draw is taken
SetupFinancingRaised(r, p) ==
    IF p.max_installment < p.min_installment THEN r
    ELSE [ c |-> [r.c EXCEPT !.installment =
                     (p.min_installment
                        + RandInt(r.g, 0, p.max_installment - p.min_installment))
                     * Unit],
           g |-> NextRng(r.g) ]

\* Customer.setup_payment_day: one draw
SetupPaymentDay(r, p) ==
    LET dd == RandInt(r.g, 1, p.max_day)
    IN  [ c |-> [r.c EXCEPT !.d = dd, !.p_day = dd, !.day = dd,
                            !.b_risk = dd * Milli],
          g |-> NextRng(r.g) ]

\* Customer.setup_contribution
SetupContribution(c, p) ==
    LET dc == p.base_rate + p.premium_increment * Max(c.d - 1, 1)
    IN  [c EXCEPT !.d_contribution = dc,
                  !.std_contribution =
                      IF p.base_rate > 0 THEN (dc * Milli) \div p.base_rate
                                         ELSE 0]

\* min + random.uniform(0, 1) * (max - min), the uniform draw taken in state g
UniformBand(g, lo, hi) == lo + (Uniform256(g) * (hi - lo)) \div 256

\* Customer.setup_peer_effect: one draw, clamped to [0, 1]
SetupPeerEffect(r, p) ==
    LET min_lamda == ((100 - p.randomness) * p.peer_effect * Milli) \div 10000
        max_lamda == ((100 + p.randomness) * p.peer_effect * Milli) \div 10000
    IN  [ c |-> [r.c EXCEPT !.lamda =
                     Max(0, Min(Milli, UniformBand(r.g, min_lamda, max_lamda)))],
          g |-> NextRng(r.g) ]

\* Customer.setup_response: two draws
SetupResponse(r, p) ==
    LET g1 == NextRng(r.g)
        min_alpha_1 == ((100 - p.randomness) * p.p_day_response) \div 100
        max_alpha_1 == ((100 + p.randomness) * p.p_day_response) \div 100
        min_alpha_2 == ((100 - p.randomness) * p.premium_response) \div 100
        max_alpha_2 == ((100 + p.randomness) * p.premium_response) \div 100
    IN  [ c |-> [r.c EXCEPT
                     !.alpha_1 = UniformBand(r.g, min_alpha_1, max_alpha_1),
                     !.alpha_2 = UniformBand(g1, min_alpha_2, max_alpha_2)],
          g |-> NextRng(g1) ]

\* Customer.setup_membership
SetupMembership(c) ==
    [c EXCEPT !.points = 100 - (c.d - 1),
              !.on_time_payment = 0,
              !.late_payment = 0,
              !.membership = 1]

\* a clear_vars that makes the customer a member again
ClearVarsReadmitting(c) ==
    [c EXCEPT !.status = 0, !.installment = 0, !.paid_contribution = 0,
              !.deficit = 0, !.paid_installment = 0,
              !.compensation_received = 0, !.additional_compensation = 0,
              !.patch_new_debt = 0, !.debt = 0, !.d_contribution = 0,
              !.std_contribution = 0, !.std_premium = 0, !.day = 0,
              !.b_risk = 0, !.on_time_payment = 0, !.late_payment = 0,
              !.membership = 1]

\* Customer.clear_vars
ClearVars(c) ==
    [c EXCEPT !.status = 0, !.installment = 0, !.paid_contribution = 0,
              !.deficit = 0, !.paid_installment = 0,
              !.compensation_received = 0, !.additional_compensation = 0,
              !.patch_new_debt = 0, !.debt = 0, !.d_contribution = 0,
              !.std_contribution = 0, !.std_premium = 0, !.day = 0,
              !.b_risk = 0, !.on_time_payment = 0, !.late_payment = 0]

\* Customer.get_rating
GetRating(c) ==
    IF 1 <= c.day /\ c.day < 11 THEN "A"
    ELSE IF 11 <= c.day /\ c.day < 20 THEN "B"
    ELSE "C"

\* Customer.to_dict
ToDict(c) ==
    [ id |-> c.i, x |-> c.x, y |-> c.y, installment |-> c.installment,
      debt |-> c.debt, membership |-> c.membership, day |-> c.day,
      rating |-> GetRating(c), shock |-> c.shock, deficit |-> c.deficit,
      paid_installment |-> c.paid_installment,
      compensation_received |-> c.compensation_received,
      patch_month |-> c.patch_month, duration |-> c.duration,
      points |-> c.points, on_time_payment |-> c.on_time_payment,
      late_payment |-> c.late_payment ]

----------------------------------------------------------------------------
(* Fund and Bank *)

\* Fund.__init__ / Fund.setup: 100 units
FundSetup == [assets |-> 100 * Unit, net_assets |-> 100 * Unit]

\* a Fund.update without the clamp of net_assets
FundUpdateUnclamped(f, total_contribution, total_compensation, reserve_ratio) ==
    LET a == f.assets + total_contribution
    IN  [ assets |-> a,
          net_assets |-> ((100 - reserve_ratio) * a) \div 100 - total_compensation ]

\* a Fund.update that takes the compensation out of the assets
FundUpdatePaying(f, total_contribution, total_compensation, reserve_ratio) ==
    LET a == f.assets + total_contribution - total_compensation
    IN  [ assets |-> a,
          net_assets |-> Max(((100 - reserve_ratio) * a) \div 100, 0) ]

\* Fund.update
FundUpdate(f, total_contribution, total_compensation, reserve_ratio) ==
    LET a == f.assets + total_contribution
    IN  [ assets |-> a,
          net_assets |->
              Max(((100 - reserve_ratio) * a) \div 100 - total_compensation, 0) ]

\* Bank.__init__
NewBank == [cash |-> 0, receivables |-> 0, assets |-> 0]

\* Bank.setup
BankSetup(total_debt) ==
    [cash |-> 0, receivables |-> total_debt, assets |-> 0 + total_debt]

\* a Bank.update that does not pay out the new debt
BankUpdateNoNewDebt(b, paid, compensation, new_debt, performing, non_performing) ==
    LET cash == b.cash + paid + compensation
        receivables == performing + non_performing
    IN  [cash |-> cash, receivables |-> receivables,
         assets |-> cash + receivables]

\* Bank.update (a negative cash only prints a warning)
BankUpdate(b, paid, compensation, new_debt, performing, non_performing) ==
    LET cash == b.cash + paid + compensation - new_debt
        receivables == performing + non_performing
    IN  [cash |-> cash, receivables |-> receivables,
         assets |-> cash + receivables]


----------------------------------------------------------------------------
(* World: construction and setup()                                          *)
(*                                                                          *)
(* A method of World is an operator on s = [w, g, ret]: the World, the      *)
(* process-wide generator, and the value the running call returns.          *)

\* World.__init__, with the parameter attributes set to p
NewWorld(p) ==
    [ customers |-> << >>, bank |-> NewBank, fund |-> FundSetup,
      seed_number |-> 0,      \* 0 stands for None
      month |-> 0,
      total_contribution |-> 0, total_deficit |-> 0,
      total_compensation |-> 0, total_paid_installment |-> 0,
      total_debt |-> 0, total_new_debt |-> 0,
      zero_risk_period |-> 0, expelled_agents |-> 0,
      cum_total_deficit |-> 0, cum_total_paid_installment |-> 0,
      grid_size |-> 0,
      error |-> "none",       \* the exception that ended the last call
      p |-> p ]

\* a call on a newly constructed World of a process that has drawn nothing
FreshCall(p) == [w |-> NewWorld(p), g |-> EntropyState(0), ret |-> "none"]

\* sum(c.<field> for c in cs)
SumField(cs, field) == SumSeq([k \in 1..Len(cs) |-> cs[k][field]])

\* customer k replaced by the customer of r = [c, g], the generator moved on
SetCustomer(s, k, r) == [s EXCEPT !.w.customers[k] = r.c, !.g = r.g]

\* a random.seed that leaves the generator where it is
SeedRngKept(g, seed) == g

\* random.seed(seed) on the process-wide generator
SeedRng(g, seed) == SeedState(seed)

\* the seed World.set_random_seed() draws: random.randint(1, 1000000)
DrawnSeed(g) == RandInt(g, 1, 1000000)

\* self.seed_number = seed; random.seed(seed)
SetSeed(s, seed) ==
    [s EXCEPT !.w.seed_number = seed, !.g = SeedRng(s.g, seed)]

\* World.set_random_seed(seed); seed = 0 stands for the default None
WorldSetRandomSeed(s, seed) ==
    IF seed # 0 THEN SetSeed(s, seed) ELSE SetSeed(s, DrawnSeed(s.g))

\* World.setup, the resets it starts with
SetupReset(s) ==
    [s EXCEPT !.w.month = 0,
              !.w.customers = << >>,
              !.w.expelled_agents = 0,
              !.w.cum_total_deficit = 0,
              !.w.cum_total_paid_installment = 0,
              !.w.error = "none"]

\* World.setup: if not self.fix_random_seed: self.set_random_seed()
SetupSeed(s) ==
    IF ~s.w.p.fix_random_seed THEN WorldSetRandomSeed(s, 0) ELSE s

\* World.calculate_no_of_customers
CalculateNoOfCustomers(s) ==
    [s EXCEPT !.w.grid_size = ISqrt(s.w.p.world_size)]

\* a neighbourhood that counts the customer's own cell
NeighborIdsWithSelf(x, y, width, height, n) ==
    LET cell(k) == <<x + ((k - 1) \div 3) - 1, y + ((k - 1) % 3) - 1>>
        ok(k) == /\ 0 <= cell(k)[1] /\ cell(k)[1] < width
                 /\ 0 <= cell(k)[2] /\ cell(k)[2] < height
                 /\ cell(k)[2] * width + cell(k)[1] < n
        id(k) == cell(k)[2] * width + cell(k)[1]
    IN  SelectSeq([k \in 1..9 |-> IF ok(k) THEN id(k) ELSE -1],
                  LAMBDA v : v >= 0)

\* World._setup_neighbors for the customer at (x, y): the ids of its Moore
\* neighbours, in the order dx, dy in -1, 0, 1
NeighborIds(x, y, width, height, n) ==
    LET cell(k) == <<x + ((k - 1) \div 3) - 1, y + ((k - 1) % 3) - 1>>
        ok(k) == /\ k # 5
                 /\ 0 <= cell(k)[1] /\ cell(k)[1] < width
                 /\ 0 <= cell(k)[2] /\ cell(k)[2] < height
                 /\ cell(k)[2] * width + cell(k)[1] < n
        id(k) == cell(k)[2] * width + cell(k)[1]
    IN  SelectSeq([k \in 1..9 |-> IF ok(k) THEN id(k) ELSE -1],
                  LAMBDA v : v >= 0)

\* World.setup_customers, the body of the creation loop once the financing
\* draws r = [c, g] of the new customer are made
AppendCustomer(s, r) ==
    [s EXCEPT !.w.customers =
                  Append(@, [r.c EXCEPT !.financing_round = 1,
                                        !.membership = 1, !.status = 1]),
              !.g = r.g]

\* World.setup_customers left by the ValueError of setup_financing: the
\* customer being built is dropped, r.g is the generator it leaves
CreateRaised(s, r) == [s EXCEPT !.w.error = "ValueError", !.g = r.g]

\* World.setup_customers, the creation loop from customer_id = id on (row by
\* row: x = id % width, y = id // width)
RECURSIVE CreateFrom(_, _)
CreateFrom(s, id) ==
    IF id >= s.w.grid_size * s.w.grid_size THEN s
    ELSE IF BoundsInverted(s.w.p)
    THEN CreateRaised(s,
             SetupFinancingRaised(
                 [c |-> NewCustomer(id, id % s.w.grid_size,
                                    id \div s.w.grid_size),
                  g |-> s.g], s.w.p))
    ELSE CreateFrom(
             AppendCustomer(s,
                 SetupFinancing(
                     [c |-> NewCustomer(id, id % s.w.grid_size,
                                        id \div s.w.grid_size),
                      g |-> s.g], s.w.p)),
             id + 1)

\* World._setup_neighbors (not reached when the creation loop was left by an
\* exception)
SetupNeighbors(s) ==
    IF s.w.error # "none" THEN s
    ELSE [s EXCEPT !.w.customers =
             [k \in 1..Len(s.w.customers) |->
                 [s.w.customers[k] EXCEPT !.neighbors =
                     NeighborIds(s.w.customers[k].x, s.w.customers[k].y,
                                 s.w.grid_size, s.w.grid_size,
                                 Len(s.w.customers))]]]

\* World.setup_customers
SetupCustomers(s) == SetupNeighbors(CreateFrom(s, 0))

\* setup_contribution, then setup_membership, on the customer of r
WithContribution(r, p) == [r EXCEPT !.c = SetupContribution(r.c, p)]
WithMembership(r) == [r EXCEPT !.c = SetupMembership(r.c)]

\* World.setup_incentive_system, the body of its loop: four draws
IncentiveSetup(r, p) ==
    WithMembership(
        SetupResponse(
            SetupPeerEffect(
                WithContribution(SetupPaymentDay(r, p), p), p), p))

\* World.setup_incentive_system for customers k, k+1, ...
RECURSIVE IncentiveSetupFrom(_, _)
IncentiveSetupFrom(s, k) ==
    IF k > Len(s.w.customers) THEN s
    ELSE IncentiveSetupFrom(
             SetCustomer(s, k,
                 IncentiveSetup([c |-> s.w.customers[k], g |-> s.g], s.w.p)),
             k + 1)

\* World.setup: if self.incentive_system: self.setup_incentive_system()
SetupIncentiveSystem(s) ==
    IF s.w.p.incentive_system THEN IncentiveSetupFrom(s, 1) ELSE s

\* World.setup_bank
SetupBank(s) ==
    [s EXCEPT !.w.total_debt = SumField(s.w.customers, "debt"),
              !.w.bank = BankSetup(SumField(s.w.customers, "debt"))]

\* World.setup_fund
SetupFund(s) == [s EXCEPT !.w.fund = FundSetup]

\* World.setup from setup_incentive_system on; nothing of it runs when
\* setup_customers was left by an exception
SetupRest(s) ==
    IF s.w.error # "none" THEN s
    ELSE SetupFund(SetupBank(SetupIncentiveSystem(s)))

\* World.setup
WorldSetup(s) ==
    SetupRest(
        SetupCustomers(CalculateNoOfCustomers(SetupSeed(SetupReset(s)))))

----------------------------------------------------------------------------
(* World.step(): the passes, in the order step() calls them *)

\* a renewal that leaves financing_round as it is
RenewCustomerSameRound(c, g, p) ==
    LET r == SetupFinancing([c |-> SetupMembership(ClearVars(c)), g |-> g], p)
    IN  [ c |-> [r.c EXCEPT !.status = 1,
                            !.patch_new_debt = 0,
                            !.count_new_debt = c.count_new_debt + 1,
                            !.patch_month = 1],
          g |-> r.g ]

\* the renewal branch of World.calculate_renew_financing for one customer
RenewCustomer(c, g, p) ==
    LET r == SetupFinancing([c |-> SetupMembership(ClearVars(c)), g |-> g], p)
    IN  [ c |-> [r.c EXCEPT !.status = 1,
                            !.financing_round = c.financing_round + 1,
                            !.patch_new_debt = 0,
                            !.count_new_debt = c.count_new_debt + 1,
                            !.patch_month = 1],
          g |-> r.g ]

\* self.total_new_debt += customer.patch_new_debt, for the renewed customer k
AddNewDebt(s, k) ==
    [s EXCEPT !.w.total_new_debt = @ + s.w.customers[k].debt]

\* the renewal of customer k left by the ValueError of setup_financing, after
\* clear_vars and setup_membership: the exception leaves step()
RenewRaised(s, k) ==
    [SetCustomer(s, k,
         SetupFinancingRaised(
             [c |-> SetupMembership(ClearVars(s.w.customers[k])), g |-> s.g],
             s.w.p))
     EXCEPT !.w.error = "ValueError", !.ret = "raised"]

\* World.calculate_renew_financing, the body of its loop for customer k
RenewOne(s, k) ==
    IF s.w.customers[k].patch_month > s.w.customers[k].duration
         \/ s.w.customers[k].membership = 0
    THEN IF s.w.p.renew_financing
         THEN IF BoundsInverted(s.w.p) THEN RenewRaised(s, k)
              ELSE AddNewDebt(
                       SetCustomer(s, k,
                           RenewCustomer(s.w.customers[k], s.g, s.w.p)), k)
         ELSE [s EXCEPT !.w.customers[k] = ClearVars(s.w.customers[k])]
    ELSE s

\* World.calculate_renew_financing for customers k, k+1, ..., up to the end
\* or to the customer whose renewal raises
RECURSIVE RenewFrom(_, _)
RenewFrom(s, k) ==
    IF k > Len(s.w.customers) \/ s.w.error # "none" THEN s
    ELSE RenewFrom(RenewOne(s, k), k + 1)

\* World.calculate_renew_financing
CalculateRenewFinancing(s) ==
    RenewFrom([s EXCEPT !.w.total_new_debt = 0], 1)

\* Customer.calculate_payment_day, the draw taken in state g
PaymentDay(c, g, max_day) ==
    LET min_p_day == Max(c.d - 1, 1)
        max_p_day == c.d + 1
        pd == min_p_day + RandInt(g, 0, max_p_day - min_p_day)
    IN  IF pd > max_day + 1 THEN max_day + 1 ELSE pd

\* a calculate_membership that expels on the third late payment
CalculateMembershipEarly(c, max_day) ==
    LET points == 100 - (c.day - 1)
        on_time == points >= 100 - (max_day - 2)
        late == IF on_time THEN c.late_payment ELSE c.late_payment + 1
    IN  [c EXCEPT !.points = points,
                  !.on_time_payment = IF on_time THEN @ + 1 ELSE @,
                  !.late_payment = late,
                  !.membership = IF late > 2 THEN 0 ELSE @]

\* Customer.calculate_membership
CalculateMembership(c, max_day) ==
    LET points == 100 - (c.day - 1)
        on_time == points >= 100 - (max_day - 2)
        late == IF on_time THEN c.late_payment ELSE c.late_payment + 1
    IN  [c EXCEPT !.points = points,
                  !.on_time_payment = IF on_time THEN @ + 1 ELSE @,
                  !.late_payment = late,
                  !.membership = IF late > 3 THEN 0 ELSE @]

\* d2 of Customer.calculate_rating: the peer term of customer k, read from the
\* population as it stands
PeerTerm(cs, k) ==
    LET nb == cs[k].neighbors
    IN  IF Len(nb) > 0
        THEN SumSeq([j \in 1..Len(nb) |->
                        IF cs[nb[j] + 1].membership = 1
                        THEN cs[nb[j] + 1].b_risk ELSE 0]) \div Len(nb)
        ELSE cs[k].b_risk

\* Customer.calculate_rating for customer k (one draw when it is active)
CalculateRating(cs, k, g, max_day) ==
    LET c == cs[k]
        p_day == PaymentDay(c, g, max_day)
        d1 == c.alpha_1 * p_day - (c.alpha_2 * c.std_premium) \div Milli
        d2 == PeerTerm(cs, k)
        blend == ((Milli - c.lamda) * d1 + c.lamda * d2) \div Milli
        b_risk == IF blend < Milli THEN Milli ELSE blend
        day == RoundHalfEven(b_risk, Milli)
    IN  IF ~IsActive(c) THEN [c |-> c, g |-> g]
        ELSE [ c |-> CalculateMembership(
                        [c EXCEPT !.p_day = p_day, !.b_risk = b_risk,
                                  !.day = day], max_day),
               g |-> NextRng(g) ]

\* World.calculate_incentives, the expulsion test after calculate_rating
Expel(s, k) ==
    IF s.w.customers[k].late_payment > 3 /\ s.w.customers[k].membership = 1
    THEN [s EXCEPT !.w.customers[k].membership = 0,
                   !.w.expelled_agents = @ + 1]
    ELSE s

\* World.calculate_incentives, the body of its first loop for customer k
RateOne(s, k) ==
    IF IsActive(s.w.customers[k])
    THEN Expel(SetCustomer(s, k,
                   CalculateRating(s.w.customers, k, s.g, s.w.p.max_day)), k)
    ELSE s

\* a rating pass that takes the customers from the last to customer k
RECURSIVE RatingFromLast(_, _)
RatingFromLast(s, k) ==
    IF k > Len(s.w.customers) THEN s ELSE RateOne(RatingFromLast(s, k + 1), k)

\* World.calculate_incentives, first pass, for customers k, k+1, ...: each is
\* rated in place, so later customers read the values already written
RECURSIVE RatingFrom(_, _)
RatingFrom(s, k) ==
    IF k > Len(s.w.customers) THEN s ELSE RatingFrom(RateOne(s, k), k + 1)

\* Customer.calculate_premium
CalculatePremium(c, p) ==
    LET dc == p.base_rate + p.premium_increment * (c.day - 1)
        sc == (dc * Milli) \div p.base_rate
    IN  IF ~IsActive(c) THEN c
        ELSE IF p.base_rate > 0
             THEN [c EXCEPT !.d_contribution = dc, !.std_contribution = sc,
                            !.std_premium = sc - Milli]
             ELSE [c EXCEPT !.d_contribution = 0, !.std_contribution = 0,
                            !.std_premium = 0]

\* World.calculate_incentives, second pass
PremiumPass(s) ==
    [s EXCEPT !.w.customers =
        [k \in 1..Len(s.w.customers) |->
            CalculatePremium(s.w.customers[k], s.w.p)]]

\* World.calculate_incentives (it returns at once without the incentive system)
WorldCalculateIncentives(s) ==
    IF ~s.w.p.incentive_system THEN s ELSE PremiumPass(RatingFrom(s, 1))

\* a calculate_contribution on the full installment, whatever the last shock
CalculateContributionGross(c, p) ==
    LET dc == IF p.incentive_system THEN c.d_contribution ELSE p.base_rate
        paid == (dc * c.installment) \div Scale
    IN  IF IsActive(c)
        THEN [c EXCEPT !.d_contribution = dc,
                       !.paid_contribution = paid,
                       !.cumulative_installment = @ + c.installment,
                       !.cum_paid_contribution = @ + paid]
        ELSE [c EXCEPT !.paid_contribution = 0]

\* Customer.calculate_contribution
CalculateContribution(c, p) ==
    LET prev_installment ==
            ((Milli - c.shock * c.insolvency_fraction) * c.installment) \div Milli
        dc == IF p.incentive_system THEN c.d_contribution ELSE p.base_rate
        paid == (dc * prev_installment) \div Scale
    IN  IF IsActive(c)
        THEN [c EXCEPT !.d_contribution = dc,
                       !.paid_contribution = paid,
                       !.cumulative_installment = @ + c.installment,
                       !.cum_paid_contribution = @ + paid]
        ELSE [c EXCEPT !.paid_contribution = 0]


\* World.calculate_contribution, its loop over the customers
ContributionPass(s) ==
    [s EXCEPT !.w.customers =
        [k \in 1..Len(s.w.customers) |->
            CalculateContribution(s.w.customers[k], s.w.p)]]

\* World.calculate_contribution, the step's total
ContributionTotal(s) ==
    [s EXCEPT !.w.total_contribution =
        SumField(s.w.customers, "paid_contribution")]

\* World.calculate_contribution
WorldCalculateContribution(s) == ContributionTotal(ContributionPass(s))

\* a calculate_shock that compares a draw from 0..99 with the risk
CalculateShockFromZero(c, g, p) ==
    LET s == RandInt(g, 0, 99)
        g1 == NextRng(g)
        min_fraction == ((100 - p.randomness) * p.unpaid_fraction * Milli)
                            \div 10000
        max_fraction == ((100 + p.randomness) * p.unpaid_fraction * Milli)
                            \div 10000
        fraction == UniformBand(g1, min_fraction, max_fraction)
    IN  IF ~IsActive(c) THEN [c |-> c, g |-> g]
        ELSE IF s <= p.insolvency_risk
             THEN [ c |-> [c EXCEPT !.shock = 1,
                                    !.insolvency_fraction =
                                        IF fraction > Milli THEN Milli
                                                            ELSE fraction],
                    g |-> NextRng(g1) ]
             ELSE [ c |-> [c EXCEPT !.shock = 0, !.insolvency_fraction = 0],
                    g |-> g1 ]

\* Customer.calculate_shock: one draw, and a second one on a hit
CalculateShock(c, g, p) ==
    LET s == RandInt(g, 1, 100)
        g1 == NextRng(g)
        min_fraction == ((100 - p.randomness) * p.unpaid_fraction * Milli)
                            \div 10000
        max_fraction == ((100 + p.randomness) * p.unpaid_fraction * Milli)
                            \div 10000
        fraction == UniformBand(g1, min_fraction, max_fraction)
    IN  IF ~IsActive(c) THEN [c |-> c, g |-> g]
        ELSE IF s <= p.insolvency_risk
             THEN [ c |-> [c EXCEPT !.shock = 1,
                                    !.insolvency_fraction =
                                        IF fraction > Milli THEN Milli
                                                            ELSE fraction],
                    g |-> NextRng(g1) ]
             ELSE [ c |-> [c EXCEPT !.shock = 0, !.insolvency_fraction = 0],
                    g |-> g1 ]


\* World.calculate_insolvency, first pass, for customers k, k+1, ...
RECURSIVE ShockFrom(_, _)
ShockFrom(s, k) ==
    IF k > Len(s.w.customers) THEN s
    ELSE ShockFrom(
             SetCustomer(s, k,
                 CalculateShock(s.w.customers[k], s.g, s.w.p)),
             k + 1)

\* a calculate_insolvency that books the whole installment as paid
CalculateInsolvencyFullyPaid(c) ==
    LET deficit == (c.shock * c.insolvency_fraction * c.installment) \div Milli
    IN  IF IsActive(c)
        THEN [c EXCEPT !.deficit = deficit,
                       !.cumulative_deficit = @ + deficit,
                       !.paid_installment = c.installment,
                       !.cum_paid_installment = @ + c.installment]
        ELSE [c EXCEPT !.deficit = 0, !.paid_installment = 0]

\* Customer.calculate_insolvency
CalculateInsolvency(c) ==
    LET deficit == (c.shock * c.insolvency_fraction * c.installment) \div Milli
    IN  IF IsActive(c)
        THEN [c EXCEPT !.deficit = deficit,
                       !.cumulative_deficit = @ + deficit,
                       !.paid_installment = c.installment - deficit,
                       !.cum_paid_installment = @ + c.installment - deficit]
        ELSE [c EXCEPT !.deficit = 0, !.paid_installment = 0]

\* World.calculate_insolvency, second pass, its loop over the customers
InsolvencyPass(s) ==
    [s EXCEPT !.w.customers =
        [k \in 1..Len(s.w.customers) |->
            CalculateInsolvency(s.w.customers[k])]]

\* World.calculate_insolvency, the step's totals
InsolvencyTotals(s) ==
    [s EXCEPT !.w.total_deficit =
                  SumField(s.w.customers, "deficit"),
              !.w.total_paid_installment =
                  SumField(s.w.customers, "paid_installment")]

\* World.calculate_insolvency, the cumulative totals
InsolvencyCumulative(s) ==
    [s EXCEPT !.w.cum_total_paid_installment = @ + s.w.total_paid_installment,
              !.w.cum_total_deficit = @ + s.w.total_deficit]

\* a share derivation whose ratio test is <= instead of <
CompensationShareInclusive(net_assets, total_deficit, compensation_ratio) ==
    IF net_assets > total_deficit
    THEN IF net_assets = 0 THEN [raised |-> TRUE, value |-> 0]
         ELSE IF total_deficit * 100 <= compensation_ratio * net_assets
              THEN [raised |-> FALSE, value |-> Milli]
              ELSE [raised |-> FALSE,
                    value |-> (compensation_ratio * Milli) \div 100]
    ELSE [raised |-> FALSE, value |-> 0]

\* World.calculate_shares: the scalar it derives from the fund's net assets,
\* the step's total deficit and compensation_ratio; raised is TRUE when the
\* division total_deficit / net_assets is reached with net_assets = 0
\* (ZeroDivisionError)
CompensationShare(net_assets, total_deficit, compensation_ratio) ==
    IF net_assets > total_deficit
    THEN IF net_assets = 0 THEN [raised |-> TRUE, value |-> 0]
         ELSE IF total_deficit * 100 < compensation_ratio * net_assets
              THEN [raised |-> FALSE, value |-> Milli]
              ELSE [raised |-> FALSE,
                    value |-> (compensation_ratio * Milli) \div 100]
    ELSE [raised |-> FALSE, value |-> 0]

\* a broadcast that reaches the active customers only
BroadcastShareActive(cs, share) ==
    [k \in 1..Len(cs) |->
        IF IsActive(cs[k]) THEN [cs[k] EXCEPT !.compensation_share = share]
                           ELSE cs[k]]

\* World.calculate_shares, the broadcast loop
BroadcastShare(cs, share) ==
    [k \in 1..Len(cs) |-> [cs[k] EXCEPT !.compensation_share = share]]

\* World.calculate_shares once the scalar is derived: the broadcast, or the
\* exception leaving the call
ApplyShare(s, share) ==
    IF share.raised
    THEN [s EXCEPT !.w.error = "ZeroDivisionError", !.ret = "raised"]
    ELSE [s EXCEPT !.w.customers = BroadcastShare(s.w.customers, share.value)]

\* World.calculate_shares
CalculateShares(s) ==
    ApplyShare(s, CompensationShare(s.w.fund.net_assets, s.w.total_deficit,
                                    s.w.p.compensation_ratio))

\* World.calculate_insolvency (it ends by calling calculate_shares)
WorldCalculateInsolvency(s) ==
    CalculateShares(
        InsolvencyCumulative(InsolvencyTotals(InsolvencyPass(ShockFrom(s, 1)))))

\* a calculate_compensation that leaves the compensated part in the
\* non-performing debt
CalculateCompensationUnbooked(c) ==
    LET comp == (c.compensation_share * c.deficit) \div Milli
    IN  IF IsActive(c)
        THEN [c EXCEPT !.compensation_received = comp,
                       !.cumulative_deficit = @ - comp,
                       !.cum_compensation = @ + comp,
                       !.non_performing_debt = c.cumulative_deficit]
        ELSE [c EXCEPT !.compensation_received = 0]

\* Customer.calculate_compensation
CalculateCompensation(c) ==
    LET comp == (c.compensation_share * c.deficit) \div Milli
    IN  IF IsActive(c)
        THEN [c EXCEPT !.compensation_received = comp,
                       !.cumulative_deficit = @ - comp,
                       !.cum_compensation = @ + comp,
                       !.non_performing_debt = c.cumulative_deficit - comp]
        ELSE [c EXCEPT !.compensation_received = 0]

\* World.adjust_compensations for one customer, inside the surplus branch
AdjustCustomer(c, sum_cum_deficit, fund_surplus) ==
    LET share == IF sum_cum_deficit > 0
                 THEN (c.cumulative_deficit * Scale)
                          \div (sum_cum_deficit + 1 * Unit)
                 ELSE 0
        uncapped_add_comp == (share * fund_surplus) \div Scale
        add == Min(uncapped_add_comp, c.cumulative_deficit)
        left == IF c.cumulative_deficit - add < 0 THEN 0
                ELSE c.cumulative_deficit - add
    IN  IF IsActive(c)
        THEN [c EXCEPT !.share = share,
                       !.additional_compensation = add,
                       !.cumulative_deficit = left,
                       !.cum_compensation = @ + add,
                       !.non_performing_debt = left]
        ELSE [c EXCEPT !.share = share, !.additional_compensation = 0]

\* World.adjust_compensations, every branch that only clears
\* additional_compensation
NoAdjustment(s) ==
    [s EXCEPT !.w.customers =
        [k \in 1..Len(s.w.customers) |->
            [s.w.customers[k] EXCEPT !.additional_compensation = 0]]]

\* World.adjust_compensations once sum_cum_deficit is computed
AdjustWith(s, sum_cum_deficit) ==
    IF s.w.fund.net_assets > sum_cum_deficit
    THEN [s EXCEPT !.w.customers =
             [k \in 1..Len(s.w.customers) |->
                 AdjustCustomer(s.w.customers[k], sum_cum_deficit,
                                s.w.fund.net_assets - sum_cum_deficit)]]
    ELSE NoAdjustment(s)

\* World.adjust_compensations
AdjustCompensations(s) ==
    IF ~s.w.p.adjust_compensation THEN NoAdjustment(s)
    ELSE AdjustWith(s, SumField(s.w.customers, "cumulative_deficit"))

\* World.calculate_compensation, its loop over the customers
CompensationPass(s) ==
    [s EXCEPT !.w.customers =
        [k \in 1..Len(s.w.customers) |->
            CalculateCompensation(s.w.customers[k])]]

\* World.calculate_compensation, the step's total
CompensationTotal(s) ==
    [s EXCEPT !.w.total_compensation =
        SumField(s.w.customers, "compensation_received")
          + SumField(s.w.customers, "additional_compensation")]

\* World.calculate_compensation
WorldCalculateCompensation(s) ==
    CompensationTotal(AdjustCompensations(CompensationPass(s)))

\* a calculate_debt without the ACTIVE test
CalculateDebtAlways(c) ==
    [c EXCEPT !.debt = Max(c.debt - c.installment, 0),
              !.performing_debt = Max(c.debt - c.installment, 0)]

\* a calculate_debt that amortizes by what was paid, not by the installment
CalculateDebtPaid(c) ==
    IF IsActive(c)
    THEN [c EXCEPT !.debt = Max(c.debt - c.paid_installment, 0),
                   !.performing_debt = Max(c.debt - c.paid_installment, 0)]
    ELSE c

\* Customer.calculate_debt
CalculateDebt(c) ==
    IF IsActive(c)
    THEN [c EXCEPT !.debt = Max(c.debt - c.installment, 0),
                   !.performing_debt = Max(c.debt - c.installment, 0)]
    ELSE c

\* World.calculate_debt
WorldCalculateDebt(s) ==
    [s EXCEPT !.w.customers =
        [k \in 1..Len(s.w.customers) |-> CalculateDebt(s.w.customers[k])]]

\* World.calculate_fund
CalculateFund(s) ==
    [s EXCEPT !.w.fund = FundUpdate(s.w.fund, s.w.total_contribution,
                                    s.w.total_compensation,
                                    s.w.p.reserve_ratio)]

\* World.calculate_bank
CalculateBank(s) ==
    [s EXCEPT !.w.bank =
        BankUpdate(s.w.bank, s.w.total_paid_installment,
                   s.w.total_compensation, s.w.total_new_debt,
                   SumField(s.w.customers, "performing_debt"),
                   SumField(s.w.customers, "non_performing_debt"))]

\* Customer.check_consistency
CheckConsistency(c) ==
    IF IsActive(c)
    THEN [c EXCEPT !.balance = c.installment - c.paid_installment - c.deficit]
    ELSE c

\* World.check_consistency
WorldCheckConsistency(s) ==
    [s EXCEPT !.w.customers =
        [k \in 1..Len(s.w.customers) |-> CheckConsistency(s.w.customers[k])]]

\* World.calculate_zero_period (avg_npl > 0 exactly when the sum is)
CalculateZeroPeriod(s) ==
    IF Len(s.w.customers) > 0
         /\ SumField(s.w.customers, "non_performing_debt") > 0
    THEN [s EXCEPT !.w.zero_risk_period = s.w.month]
    ELSE s

\* a stopping test that fires in the boundary month only
StepReturnOnce(month, p) ==
    IF ~p.renew_financing THEN ~(month = p.max_periods)
                          ELSE ~(month = p.no_of_periods)

\* a stopping test that fires one month late
StepReturnLate(month, p) ==
    IF ~p.renew_financing THEN ~(month > p.max_periods)
                          ELSE ~(month > p.no_of_periods)

\* the stopping test at the end of World.step: the value step() returns
StepReturn(month, p) ==
    IF ~p.renew_financing THEN ~(month >= p.max_periods)
                          ELSE ~(month >= p.no_of_periods)

\* a step that counts its month twice
StepTickTwice(s) ==
    [s EXCEPT !.w.month = @ + 2,
              !.w.error = "none",
              !.w.customers =
                  [k \in 1..Len(s.w.customers) |->
                      [s.w.customers[k] EXCEPT !.patch_month = @ + 1]]]

\* World.step, its first lines: the month and every patch_month advance
StepTick(s) ==
    [s EXCEPT !.w.month = @ + 1,
              !.w.error = "none",
              !.w.customers =
                  [k \in 1..Len(s.w.customers) |->
                      [s.w.customers[k] EXCEPT !.patch_month = @ + 1]]]

\* World.step, the return statement
StepResult(s) ==
    [s EXCEPT !.ret = IF StepReturn(s.w.month, s.w.p) THEN "true"
                                                      ELSE "false"]

\* World.step from calculate_compensation on; nothing of it runs when
\* calculate_insolvency was left by an exception
StepRest(s) ==
    IF s.w.error # "none" THEN s
    ELSE StepResult(
             CalculateZeroPeriod(
                 WorldCheckConsistency(
                     CalculateBank(
                         CalculateFund(
                             WorldCalculateDebt(
                                 WorldCalculateCompensation(s)))))))

\* World.step from calculate_incentives to calculate_insolvency; nothing of
\* it runs when calculate_renew_financing was left by an exception
StepLedger(s) ==
    IF s.w.error # "none" THEN s
    ELSE WorldCalculateInsolvency(
             WorldCalculateContribution(WorldCalculateIncentives(s)))

\* World.step
WorldStep(s) == StepRest(StepLedger(CalculateRenewFinancing(StepTick(s))))

\* World.get_state: the snapshot (means are the floor of sum / population)
GetState(w) ==
    LET cs == w.customers
        n == Len(cs)
        act == SelectSeq(cs, LAMBDA c : c.membership = 1)
        mean(field) == IF n > 0 THEN SumField(cs, field) \div n ELSE 0
        count(s, T(_)) == Len(SelectSeq(s, T))
        maxof(field, dflt) ==
            IF n = 0 THEN dflt
            ELSE CHOOSE m \in {cs[k][field] : k \in 1..n} :
                     \A k \in 1..n : cs[k][field] <= m
    IN  [ month |-> w.month,
          seed_number |-> w.seed_number,
          bank |-> w.bank,
          fund |-> w.fund,
          customers |->
            [ total |-> n,
              active |-> Len(act),
              expelled |-> w.expelled_agents,
              a_rated |-> count(act, LAMBDA c : 1 <= c.day /\ c.day < 11),
              b_rated |-> count(act, LAMBDA c : 11 <= c.day /\ c.day < 20),
              c_rated |-> count(act, LAMBDA c : c.day >= 20),
              insolvent |-> count(cs, LAMBDA c : c.shock = 1) ],
          totals |->
            [ contribution |-> w.total_contribution,
              deficit |-> w.total_deficit,
              compensation |-> w.total_compensation,
              paid_installment |-> w.total_paid_installment,
              new_debt |-> w.total_new_debt,
              cum_deficit |-> w.cum_total_deficit,
              cum_paid_installment |-> w.cum_total_paid_installment ],
          metrics |->
            [ avg_payment_day |->
                  IF Len(act) > 0
                  THEN SumField(act, "day") \div Len(act) ELSE 0,
              avg_contribution_pct |->
                  IF Len(act) > 0
                  THEN (SumField(act, "d_contribution") * 100)
                           \div Len(act)
                  ELSE 0,
              performing_debt |-> SumField(cs, "performing_debt"),
              non_performing_debt |->
                  SumField(cs, "non_performing_debt"),
              zero_risk_period |-> w.zero_risk_period,
              mean_deficit |-> mean("deficit"),
              mean_compensation_received |->
                  mean("compensation_received"),
              mean_additional_compensation |->
                  mean("additional_compensation"),
              mean_day |-> mean("day"),
              max_day |-> maxof("day", 0),
              avg_points |-> mean("points"),
              rounds |-> maxof("financing_round", 1) ],
          customer_data |-> [k \in 1..Min(n, 100) |-> ToDict(cs[k])] ]


----------------------------------------------------------------------------
(* Parameter sets *)

\* the parameter attributes a caller sets on a World before setup()
Params(ws, periods, risk, mday, renew, incentive, adjust, fix) ==
    [ world_size |-> ws,
      base_rate |-> 20, premium_increment |-> 10,
      min_installment |-> 40, max_installment |-> 60,
      min_periods |-> periods[1], max_periods |-> periods[2],
      no_of_periods |-> 4,
      insolvency_risk |-> risk, unpaid_fraction |-> 70,
      max_day |-> mday,
      p_day_response |-> 1000, premium_response |-> 1000,
      peer_effect |-> 40, reserve_ratio |-> 10, compensation_ratio |-> 70,
      randomness |-> 25,
      renew_financing |-> renew, incentive_system |-> incentive,
      adjust_compensation |-> adjust, fix_random_seed |-> fix ]

\* a 2 x 2 grid under every combination of the options, short and long
\* loans, with and without insolvency risk; grids of 1 and 4 customers
\* with a small and a large max_day, with and without a fixed seed; and a
\* world size that is no square (5, a 2 x 2 grid) and a 3 x 3 grid
Configs ==
    { Params(4, periods, risk, 2, renew, incentive, adjust, FALSE) :
        periods \in {<<2, 3>>, <<4, 5>>}, risk \in {0, 50},
        renew \in BOOLEAN, incentive \in BOOLEAN, adjust \in BOOLEAN }
    \cup
    { Params(ws, <<4, 5>>, 50, mday, renew, TRUE, TRUE, fix) :
        ws \in {1, 4}, mday \in {2, 25}, renew \in BOOLEAN,
        fix \in BOOLEAN }
    \cup
    { Params(ws, <<2, 3>>, 50, 2, renew, TRUE, TRUE, FALSE) :
        ws \in {5, 9}, renew \in BOOLEAN }

----------------------------------------------------------------------------
(* The operations of one World, as a caller invokes them *)

NoCalls == [setup |-> 0, seed |-> 0, steps |-> 0]

\* the call state of an operation invoked on World w
Call(w) == [w |-> worlds[w], g |-> rng, ret |-> ret[w]]

\* the operation on World w ends in s
Commit(w, s) ==
    /\ worlds' = [worlds EXCEPT ![w] = s.w]
    /\ rng' = s.g
    /\ ret' = [ret EXCEPT ![w] = s.ret]

\* world.set_random_seed(seed)
SetRandomSeed(w, seed) ==
    /\ calls[w].seed < 1 /\ calls[w].setup = 0 /\ worlds[w].month = 0
    /\ Commit(w, WorldSetRandomSeed(Call(w), seed))
    /\ snap' = [snap EXCEPT ![w] = << >>]
    /\ calls' = [calls EXCEPT ![w].seed = @ + 1]
    /\ last' = [op |-> "set_random_seed", w |-> w]
    /\ UNCHANGED hist

\* world.setup()
Setup(w) ==
    /\ calls[w].setup < MaxSetups
    /\ Commit(w, WorldSetup(Call(w)))
    /\ snap' = [snap EXCEPT ![w] = << >>]
    /\ calls' = [calls EXCEPT ![w].setup = @ + 1, ![w].steps = 0]
    /\ last' = [op |-> "setup", w |-> w]
    /\ UNCHANGED hist

\* world.step()
Step(w) ==
    /\ worlds[w].month < MaxMonth
    /\ calls[w].setup = 0 => worlds[w].month < MaxPreSteps
    /\ Commit(w, WorldStep(Call(w)))
    /\ snap' = [snap EXCEPT ![w] = << >>]
    /\ calls' = [calls EXCEPT ![w].steps = @ + 1]
    /\ last' = [op |-> "step", w |-> w]
    /\ UNCHANGED hist

\* a get_state() that takes a draw from the generator
GetStateCallDrawing(w) ==
    /\ Len(snap[w]) < MaxReads
    /\ snap' = [snap EXCEPT ![w] = Append(@, GetState(worlds[w]))]
    /\ rng' = NextRng(rng)
    /\ last' = [op |-> "get_state", w |-> w]
    /\ UNCHANGED <<worlds, hist, ret, calls>>

\* world.get_state()
GetStateCall(w) ==
    /\ Len(snap[w]) < MaxReads
    /\ snap' = [snap EXCEPT ![w] = Append(@, GetState(worlds[w]))]
    /\ last' = [op |-> "get_state", w |-> w]
    /\ UNCHANGED <<rng, worlds, hist, ret, calls>>

\* a process with freshly constructed Worlds, all configured with p, and the
\* generator in the entropy-seeded state e
Start(p, e) ==
    /\ rng = EntropyState(e)
    /\ worlds = [w \in WorldIds |-> NewWorld(p)]
    /\ hist = [w \in WorldIds |-> << >>]
    /\ snap = [w \in WorldIds |-> << >>]
    /\ ret = [w \in WorldIds |-> "none"]
    /\ last = [op |-> "init", w |-> 0]
    /\ calls = [w \in WorldIds |-> NoCalls]

Init == \E p \in Configs, e \in 0..MaxEntropy : Start(p, e)

Next ==
    \/ \E seed \in 1..MaxSeed : SetRandomSeed(1, seed)
    \/ Setup(1)
    \/ Step(1)
    \/ GetStateCall(1)

Spec == Init /\ [][Next]_vars

----------------------------------------------------------------------------
(* Run drivers: a caller that builds a World, seeds it, sets it up and steps *)
(* it, reading get_state() after setup() and after every step()             *)

\* the operation on World w ends in s, and the driver reads get_state()
CommitRun(w, s) ==
    /\ Commit(w, s)
    /\ hist' = [hist EXCEPT ![w] = Append(@, GetState(s.w))]

\* initialize_simulation: set_random_seed(seed), setup(), then get_state()
RunStart(w, seed) ==
    /\ calls[w].setup = 0
    /\ CommitRun(w, WorldSetup(WorldSetRandomSeed(Call(w), seed)))
    /\ calls' = [calls EXCEPT ![w] = [setup |-> 1, seed |-> 1, steps |-> 0]]
    /\ last' = [op |-> "setup", w |-> w]
    /\ UNCHANGED snap

\* one more step of the run: step(), then get_state(), whatever step()
\* returned
RunStep(w) ==
    /\ calls[w].setup = 1
    /\ worlds[w].month < MaxRunMonth
    /\ CommitRun(w, WorldStep(Call(w)))
    /\ calls' = [calls EXCEPT ![w].steps = @ + 1]
    /\ last' = [op |-> "step", w |-> w]
    /\ UNCHANGED snap

\* Worlds with a fixed seed
FixedSeedConfigs == {p \in Configs : p.fix_random_seed}

InitRuns == \E p \in FixedSeedConfigs, e \in 0..MaxEntropy : Start(p, e)

\* two runs with the same parameters and the same fixed seed, one after the
\* other: the second World is built once the first run has been left
NextRuns ==
    \/ \E seed \in 1..MaxSeed : RunStart(1, seed)
    \/ calls[2].setup = 0 /\ RunStep(1)
    \/ calls[1].setup = 1 /\ RunStart(2, worlds[1].seed_number)
    \/ RunStep(2)

SpecRuns == InitRuns /\ [][NextRuns]_vars

\* two runs in one process whose setup() and step() calls interleave
NextInterleaved ==
    \/ \E w \in WorldIds, seed \in 1..MaxSeed : RunStart(w, seed)
    \/ \E w \in WorldIds : RunStep(w)

SpecInterleaved == InitRuns /\ [][NextInterleaved]_vars

\* a run on a World of its own: x = [s, h], the call state reached and the
\* snapshots read so far

\* get_state() read after the operation that ended in s
Record(s, h) == [s |-> s, h |-> Append(h, GetState(s.w))]

\* n more steps, get_state() read after each
RECURSIVE RunAlone(_, _)
RunAlone(x, n) ==
    IF n = 0 THEN x.h ELSE RunAlone(Record(WorldStep(x.s), x.h), n - 1)

\* the snapshots of a run of n steps by a process that holds no other World,
\* its World configured with p and seeded with seed
SoloRun(p, seed, n) ==
    RunAlone(
        Record(WorldSetup(
                   WorldSetRandomSeed(FreshCall(p), seed)), << >>),
        n)

----------------------------------------------------------------------------
(* The ledger functions on their own, over bounded inputs *)

\* World.calculate_shares with the fund at net_assets, the step's deficit at
\* total_deficit and compensation_ratio = cr
SharesCall(net_assets, total_deficit, cr) ==
    /\ last.op = "setup"
    /\ Commit(1, CalculateShares(
                     [Call(1) EXCEPT !.w.fund.net_assets = net_assets,
                                     !.w.total_deficit = total_deficit,
                                     !.w.p.compensation_ratio = cr,
                                     !.w.error = "none"]))
    /\ last' = [op |-> "calculate_shares", w |-> 1]
    /\ UNCHANGED <<hist, snap, calls>>

\* World.calculate_fund with the step's totals at contribution and
\* compensation and reserve_ratio = rr
FundCall(contribution, compensation, rr) ==
    /\ last.op = "setup"
    /\ Commit(1, CalculateFund(
                     [Call(1) EXCEPT !.w.total_contribution = contribution,
                                     !.w.total_compensation = compensation,
                                     !.w.p.reserve_ratio = rr]))
    /\ last' = [op |-> "fund.update", w |-> 1]
    /\ UNCHANGED <<hist, snap, calls>>

\* a process whose World 1 has been set up, the call having ended in s
StartUnit(s) ==
    /\ rng = s.g
    /\ worlds = [w \in WorldIds |-> IF w = 1 THEN s.w ELSE NewWorld(s.w.p)]
    /\ hist = [w \in WorldIds |-> << >>]
    /\ snap = [w \in WorldIds |-> << >>]
    /\ ret = [w \in WorldIds |-> "none"]
    /\ last = [op |-> "setup", w |-> 1]
    /\ calls = [w \in WorldIds |-> IF w = 1 THEN [setup |-> 1, seed |-> 0, steps |-> 0]
                                            ELSE NoCalls]

\* grids of 1 and 4 customers with every option on, set up
InitUnit ==
    \E ws \in {1, 4} :
        StartUnit(WorldSetup(FreshCall(Params(ws, <<2, 3>>, 50, 2,
                                              TRUE, TRUE, TRUE, FALSE))))

\* compensation_ratio and reserve_ratio values handed in
Ratios == {0, 10, 50, 70, 100}

\* net assets and deficits of 0, 10, ... units; contributions of 0, 1, ...
\* units against compensations of 0, 10, ... units
NextUnit ==
    \/ \E n \in 0..MaxAmount, d \in 0..MaxAmount, cr \in Ratios :
           SharesCall(n * 10 * Unit, d * 10 * Unit, cr)
    \/ \E c \in 0..MaxAmount, k \in 0..MaxAmount, rr \in Ratios :
           FundCall(c * Unit, k * 10 * Unit, rr)

SpecUnit == InitUnit /\ [][NextUnit]_vars

----------------------------------------------------------------------------
(* Reconfiguration: a caller that assigns new bounds to a World between its *)
(* calls, as the setup route and initialize_simulation do before setup()    *)

\* the (min, max) pairs a caller assigns: in order, and inverted
PeriodPairs == {<<2, 3>>, <<3, 2>>}
InstallmentPairs == {<<40, 60>>, <<60, 40>>}

\* world.min_periods = ..., world.max_periods = ..., world.min_installment =
\* ..., world.max_installment = ...: plain attribute assignments
Configure(w, periods, installments) ==
    /\ last.op # "configure"
    /\ calls[w].setup < MaxSetups
    /\ worlds' = [worlds EXCEPT ![w].p.min_periods = periods[1],
                                ![w].p.max_periods = periods[2],
                                ![w].p.min_installment = installments[1],
                                ![w].p.max_installment = installments[2]]
    /\ snap' = [snap EXCEPT ![w] = << >>]
    /\ last' = [op |-> "configure", w |-> w]
    /\ UNCHANGED <<rng, hist, ret, calls>>

\* grids of 1 and 4 customers with loans of 2 to 3 months, with and without
\* renewal
ConfigureConfigs ==
    { Params(ws, <<2, 3>>, 50, 2, renew, TRUE, TRUE, FALSE) :
        ws \in {1, 4}, renew \in BOOLEAN }

InitConfigure == \E p \in ConfigureConfigs, e \in 0..MaxEntropy : Start(p, e)

NextConfigure ==
    \/ \E periods \in PeriodPairs, installments \in InstallmentPairs :
           Configure(1, periods, installments)
    \/ Setup(1)
    \/ Step(1)

SpecConfigure == InitConfigure /\ [][NextConfigure]_vars

----------------------------------------------------------------------------
(* The HTTP routes of the Flask application, on its module-level World 1; *)
(* last holds the route called and the status of its response             *)

\* POST /api/setup: the parameters of the request are assigned, then
\* world.setup() runs; an exception is answered with status 500, success
\* with status 200 and world.get_state()
ApiSetup(periods, installments) ==
    /\ calls[1].setup < MaxSetups
    /\ Commit(1, WorldSetup([Call(1) EXCEPT
                                !.w.p.min_periods = periods[1],
                                !.w.p.max_periods = periods[2],
                                !.w.p.min_installment = installments[1],
                                !.w.p.max_installment = installments[2]]))
    /\ snap' = [snap EXCEPT ![1] = << >>]
    /\ calls' = [calls EXCEPT ![1].setup = @ + 1, ![1].steps = 0]
    /\ last' = [op |-> "api_setup", w |-> 1,
                status |-> IF worlds'[1].error = "none" THEN 200 ELSE 500]
    /\ UNCHANGED hist

\* POST /api/step: rejected with status 400 while world.month == 0;
\* otherwise world.step() runs and the response carries world.get_state(),
\* or status 500 after an exception
ApiStep ==
    /\ last.op # "api_step"
    /\ worlds[1].month < MaxMonth
    /\ IF worlds[1].month = 0
       THEN /\ last' = [op |-> "api_step", w |-> 1, status |-> 400]
            /\ UNCHANGED <<rng, worlds, ret, calls>>
       ELSE /\ Commit(1, WorldStep(Call(1)))
            /\ calls' = [calls EXCEPT ![1].steps = @ + 1]
            /\ last' = [op |-> "api_step", w |-> 1,
                        status |-> IF worlds'[1].error = "none" THEN 200
                                                                ELSE 500]
    /\ snap' = [snap EXCEPT ![1] = << >>]
    /\ UNCHANGED hist

\* GET /api/state: rejected with status 400 while world.month == 0;
\* otherwise the response carries world.get_state()
ApiState ==
    /\ last.op # "api_state"
    /\ IF worlds[1].month = 0
       THEN /\ last' = [op |-> "api_state", w |-> 1, status |-> 400]
            /\ UNCHANGED snap
       ELSE /\ last' = [op |-> "api_state", w |-> 1, status |-> 200]
            /\ snap' = [snap EXCEPT ![1] = <<GetState(worlds[1])>>]
    /\ UNCHANGED <<rng, worlds, hist, ret, calls>>

NextApi ==
    \/ \E periods \in PeriodPairs, installments \in InstallmentPairs :
           ApiSetup(periods, installments)
    \/ ApiStep
    \/ ApiState

SpecApi == InitConfigure /\ [][NextApi]_vars

----------------------------------------------------------------------------
(* A caller that sets its World up once and then keeps calling step() *)

NextStepping ==
    \/ calls[1].setup = 0 /\ Setup(1)
    \/ calls[1].setup = 1 /\ Step(1)

\* the caller has a call to make, and makes it: what a call of NextStepping
\* does to the caller's count of calls, under the guards of Setup and Step
CallDue ==
    \/ /\ calls[1].setup = 0
       /\ calls' = [calls EXCEPT ![1].setup = @ + 1, ![1].steps = 0]
    \/ /\ calls[1].setup = 1
       /\ worlds[1].month < MaxMonth
       /\ calls' = [calls EXCEPT ![1].steps = @ + 1]

\* the caller does not give up: it makes its next call as long as it has one
SpecStepping == Init /\ [][NextStepping]_vars /\ WF_calls(CallDue)

----------------------------------------------------------------------------
(* The rating of one customer on its own, in the population as a run left it *)

\* customer.calculate_rating(max_day) on customer k of World 1, as
\* calculate_incentives calls it on an ACTIVE customer
RatingCall(k) ==
    /\ last.op \in {"setup", "step"}
    /\ worlds[1].p.incentive_system
    /\ k <= Len(worlds[1].customers)
    /\ IsActive(worlds[1].customers[k])
    /\ Commit(1, SetCustomer(Call(1), k,
                     CalculateRating(worlds[1].customers, k, rng,
                                     worlds[1].p.max_day)))
    /\ snap' = [snap EXCEPT ![1] = << >>]
    /\ last' = [op |-> "calculate_rating", w |-> 1, k |-> k]
    /\ UNCHANGED <<hist, calls>>

\* a run of setup() and step() calls, and one rating call at its end
NextRating ==
    \/ last.op # "calculate_rating" /\ Setup(1)
    \/ last.op # "calculate_rating" /\ Step(1)
    \/ \E k \in 1..4 : RatingCall(k)

\* 2 x 2 grids with the incentive system on: short loans, which end within
\* the run, and long loans, in which a customer is expelled; with the base
\* rate of the other configurations and with the base rate 0 the interface
\* offers as its lowest setting
RatingConfigs ==
    { [Params(4, periods, 50, 2, renew, TRUE, TRUE, FALSE)
           EXCEPT !.base_rate = base] :
        periods \in {<<2, 3>>, <<4, 5>>}, renew \in BOOLEAN,
        base \in {0, 20} }

InitRating == \E p \in RatingConfigs, e \in 0..MaxEntropy : Start(p, e)

SpecRating == InitRating /\ [][NextRating]_vars

----------------------------------------------------------------------------
(* Properties *)

\* C1: two runs built with the same parameters and the same fixed seed, one
\* after the other, read the same get_state() snapshot after setup() and
\* after each step(), for as many steps as both have made
C1_SameSnapshots ==
    \A k \in 1..Min(Len(hist[1]), Len(hist[2])) : hist[1][k] = hist[2][k]

\* both runs have made two steps and more, with shocks drawn
C1_BothRunsStepped ==
    /\ Len(hist[1]) >= 3 /\ Len(hist[2]) >= 3
    /\ hist[2][3].customers.total = 4
    /\ hist[2][3].totals.cum_deficit > 0

\* C2: the random stream of a run is private to its World: whatever calls a
\* second World makes in between, the snapshots of the first World are those
\* of the same run made alone
C2_PrivateStream ==
    Len(hist[1]) > 0 =>
        hist[1] = SoloRun(worlds[1].p, worlds[1].seed_number, Len(hist[1]) - 1)

\* C3: with fix_random_seed configured, setup() seeds the stream with the
\* configured seed, so every setup() on the World, the first or a later one,
\* builds the population that set_random_seed(seed) and setup() build on a
\* new World
C3_SetupReseeds ==
    (/\ last.op = "setup"
     /\ worlds[1].p.fix_random_seed
     /\ worlds[1].seed_number # 0)
        => worlds[1].customers
               = WorldSetup(WorldSetRandomSeed(FreshCall(worlds[1].p),
                                               worlds[1].seed_number))
                     .w.customers

\* C4: after every step every ACTIVE customer has
\* installment = paid_installment + deficit, and a balance of 0
C4_ActiveBalanced ==
    worlds[1].month >= 1 =>
        \A k \in 1..Len(worlds[1].customers) :
            IsActive(worlds[1].customers[k]) =>
                /\ worlds[1].customers[k].installment
                       = worlds[1].customers[k].paid_installment
                             + worlds[1].customers[k].deficit
                /\ worlds[1].customers[k].balance = 0

\* a step has left an ACTIVE customer with a deficit
C4_ActiveWithDeficit ==
    /\ worlds[1].month >= 1
    /\ \E k \in 1..Len(worlds[1].customers) :
           /\ IsActive(worlds[1].customers[k])
           /\ worlds[1].customers[k].deficit > 0
           /\ worlds[1].customers[k].paid_installment > 0

\* C5: the fund's net_assets is >= 0 after setup() and after every fund
\* update, for every reserve ratio, contribution total and compensation total
C5_NetAssetsNonNegative == worlds[1].fund.net_assets >= 0

\* the fund was updated with a compensation above what it holds after the
\* reserve
C5_CompensationAboveFund ==
    /\ last.op = "fund.update"
    /\ worlds[1].total_compensation
           > ((100 - worlds[1].p.reserve_ratio) * worlds[1].fund.assets) \div 100
    /\ worlds[1].p.reserve_ratio < 100

\* C6: the compensation share is one scalar in [0, 1], the same for every
\* customer, active or not
C6_OneShare ==
    \A k \in 1..Len(worlds[1].customers) :
        /\ worlds[1].customers[k].compensation_share
               = worlds[1].customers[1].compensation_share
        /\ 0 <= worlds[1].customers[k].compensation_share
        /\ worlds[1].customers[k].compensation_share <= Milli

\* a step has broadcast a share above 0 to a population that holds an
\* ACTIVE and an inactive customer
C6_SharedByInactive ==
    /\ last.op = "step"
    /\ worlds[1].customers # << >>
    /\ worlds[1].customers[1].compensation_share > 0
    /\ \E k \in 1..Len(worlds[1].customers) : IsActive(worlds[1].customers[k])
    /\ \E k \in 1..Len(worlds[1].customers) : ~IsActive(worlds[1].customers[k])

C8_Expulsion ==
    /\ [](\A k \in 1..Len(worlds[1].customers) :
              worlds[1].customers[k].late_payment <= 4)
    /\ [][last'.op = "step" =>
             \A k \in 1..Len(worlds[1].customers) :
                 (/\ worlds[1].customers[k].membership = 1
                  /\ worlds'[1].customers[k].membership = 0)
                 <=> (/\ worlds[1].customers[k].late_payment = 3
                      /\ worlds'[1].customers[k].late_payment = 4)]_vars

\* a step has expelled a customer on its fourth late payment
C8_Expelled ==
    /\ last.op = "step"
    /\ \E k \in 1..Len(worlds[1].customers) :
           /\ worlds[1].customers[k].membership = 0
           /\ worlds[1].customers[k].late_payment = 4

\* C9: financing_round is 1 after setup(), grows by exactly 1 in a step that
\* renews the customer (renewal is enabled and the renewal pass finds the
\* customer past its term or expelled) and is unchanged by every other
\* operation; with renew_financing disabled it never exceeds 1
C9_FinancingRound ==
    /\ [][ /\ last'.op = "setup" =>
                \A k \in 1..Len(worlds'[1].customers) :
                    worlds'[1].customers[k].financing_round = 1
           /\ last'.op = "step" =>
                \A k \in 1..Len(worlds[1].customers) :
                    worlds'[1].customers[k].financing_round =
                        IF worlds[1].p.renew_financing
                             /\ (worlds[1].customers[k].patch_month + 1
                                     > worlds[1].customers[k].duration
                                 \/ worlds[1].customers[k].membership = 0)
                        THEN worlds[1].customers[k].financing_round + 1
                        ELSE worlds[1].customers[k].financing_round
           /\ last'.op \notin {"setup", "step"} =>
                worlds'[1].customers = worlds[1].customers ]_vars
    /\ [](~worlds[1].p.renew_financing =>
              \A k \in 1..Len(worlds[1].customers) :
                  worlds[1].customers[k].financing_round <= 1)

\* a customer is in its third loan
C9_SecondRenewal ==
    \E k \in 1..Len(worlds[1].customers) :
        worlds[1].customers[k].financing_round = 3

\* C10: step() returns false exactly when the month it has just reached is
\* >= max_periods (renew_financing disabled) or >= no_of_periods
\* (renew_financing enabled), and true otherwise
C10_StopCondition ==
    last.op = "step" =>
        /\ ret[1] = "false" <=>
               worlds[1].month >= (IF worlds[1].p.renew_financing
                                   THEN worlds[1].p.no_of_periods
                                   ELSE worlds[1].p.max_periods)
        /\ ret[1] = "true" <=>
               worlds[1].month < (IF worlds[1].p.renew_financing
                                  THEN worlds[1].p.no_of_periods
                                  ELSE worlds[1].p.max_periods)

\* step() has returned false in the month that equals the stop bound, on a
\* World that was set up
C10_StoppedAtBound ==
    /\ last.op = "step"
    /\ ret[1] = "false"
    /\ worlds[1].month = (IF worlds[1].p.renew_financing
                          THEN worlds[1].p.no_of_periods
                          ELSE worlds[1].p.max_periods)
    /\ worlds[1].customers # << >>

\* C11: every step() advances month by exactly 1, and after setup() followed
\* by n step() calls month = n
C11_MonthCountsSteps ==
    /\ [](calls[1].setup > 0 => worlds[1].month = calls[1].steps)
    /\ [][last'.op = "step" => worlds'[1].month = worlds[1].month + 1]_vars

\* three steps were made on a World after its second setup()
C11_ThreeStepsAfterSetup ==
    /\ last.op = "step"
    /\ calls[1].setup = 2
    /\ calls[1].steps = 3
    /\ worlds[1].customers # << >>

\* C12: get_state() changes no World, Customer, Bank or Fund state and takes
\* no draw from the generator, so the call that follows it starts from the
\* state it would start from without it; two calls with no step() or setup()
\* between them return the same snapshot
C12_GetStateReadOnly ==
    /\ [](\A k \in 1..Len(snap[1]) : snap[1][k] = snap[1][1])
    /\ [][last'.op = "get_state" =>
             /\ worlds' = worlds /\ rng' = rng /\ ret' = ret
             /\ snap'[1][Len(snap'[1])] = GetState(worlds[1])]_vars

\* get_state() was called twice in a row on a stepped World with a deficit
C12_ReadTwice ==
    /\ last.op = "get_state"
    /\ Len(snap[1]) = 2
    /\ snap[1][2].month >= 2
    /\ snap[1][2].totals.cum_deficit > 0

C14_NotInitialized ==
    calls[1].setup = 0 =>
        /\ worlds[1].month = 0
        /\ worlds[1].customers = << >>
        /\ last.op = "step" => ret[1] = "raised"
        /\ snap[1] = << >>

\* C15: a setup() on a World whose max_periods is below its min_periods, or
\* whose max_installment is below its min_installment, ends in an error and
\* changes nothing: the World (population, month, seed, ledgers) and the
\* generator are as they were before the call
C15_InvertedBoundsRejected ==
    [][(last'.op = "setup" /\ BoundsInverted(worlds[1].p)) =>
           /\ worlds'[1].error # "none"
           /\ [worlds'[1] EXCEPT !.error = "none"]
                  = [worlds[1] EXCEPT !.error = "none"]
           /\ rng' = rng]_vars

\* C16: step() is all or nothing: a step() that ends in an exception leaves
\* the World as it was before the call, so the get_state() that follows
\* returns the snapshot of the state before the step
C16_FailedStepRollsBack ==
    [][(last'.op = "step" /\ ret'[1] = "raised") =>
           /\ [worlds'[1] EXCEPT !.error = "none"]
                  = [worlds[1] EXCEPT !.error = "none"]
           /\ GetState(worlds'[1]) = GetState(worlds[1])]_vars

\* C17: after setup() and after every step the rating of every customer is
\* A exactly when its day is in 1..10, B exactly when it is in 11..19 and C
\* exactly when it is >= 20, and the a_rated, b_rated and c_rated counts of
\* get_state() are the numbers of members that to_dict reports with that
\* rating
C17_RatingByDay ==
    calls[1].setup > 0 =>
        /\ \A k \in 1..Len(worlds[1].customers) :
               /\ ToDict(worlds[1].customers[k]).rating = "A"
                      <=> (1 <= worlds[1].customers[k].day
                           /\ worlds[1].customers[k].day <= 10)
               /\ ToDict(worlds[1].customers[k]).rating = "B"
                      <=> (11 <= worlds[1].customers[k].day
                           /\ worlds[1].customers[k].day <= 19)
               /\ ToDict(worlds[1].customers[k]).rating = "C"
                      <=> worlds[1].customers[k].day >= 20
        /\ GetState(worlds[1]).customers.a_rated =
               Cardinality({k \in 1..Len(worlds[1].customers) :
                   /\ worlds[1].customers[k].membership = 1
                   /\ ToDict(worlds[1].customers[k]).rating = "A"})
        /\ GetState(worlds[1]).customers.b_rated =
               Cardinality({k \in 1..Len(worlds[1].customers) :
                   /\ worlds[1].customers[k].membership = 1
                   /\ ToDict(worlds[1].customers[k]).rating = "B"})
        /\ GetState(worlds[1]).customers.c_rated =
               Cardinality({k \in 1..Len(worlds[1].customers) :
                   /\ worlds[1].customers[k].membership = 1
                   /\ ToDict(worlds[1].customers[k]).rating = "C"})

C19_ExpelledOutputsZero ==
    [][last'.op = "step" =>
           \A k \in 1..Len(worlds[1].customers) :
               (/\ worlds[1].customers[k].membership = 1
                /\ worlds'[1].customers[k].membership = 0) =>
                   /\ worlds'[1].customers[k].paid_contribution = 0
                   /\ worlds'[1].customers[k].deficit = 0
                   /\ worlds'[1].customers[k].paid_installment = 0
                   /\ worlds'[1].customers[k].compensation_received = 0
                   /\ worlds'[1].customers[k].additional_compensation = 0
                   /\ worlds'[1].customers[k].debt
                          = worlds[1].customers[k].debt
                   /\ worlds'[1].customers[k].performing_debt
                          = worlds[1].customers[k].performing_debt]_vars

\* the last step expelled a customer that owes debt and an installment and
\* had paid installments before, while another customer is ACTIVE
C19_ExpelledWithDebt ==
    /\ last.op = "step"
    /\ \E k \in 1..Len(worlds[1].customers) :
           /\ worlds[1].customers[k].membership = 0
           /\ worlds[1].customers[k].late_payment = 4
           /\ worlds[1].customers[k].debt > 0
           /\ worlds[1].customers[k].installment > 0
           /\ worlds[1].customers[k].cum_paid_installment > 0
    /\ \E j \in 1..Len(worlds[1].customers) : IsActive(worlds[1].customers[j])

\* C20: membership is 0 or 1; a customer that is expelled when a step starts
\* is, with renew_financing enabled, a member again when that step ends, in
\* its first month of a new loan of a further financing round, and is, with
\* renew_financing disabled, still expelled and not ACTIVE when the step
\* ends, the population being as large as before; no other call than
\* step() and setup() changes a membership
C20_ExpelledInert ==
    /\ [](\A k \in 1..Len(worlds[1].customers) :
              worlds[1].customers[k].membership \in {0, 1})
    /\ [][ /\ last'.op = "step" =>
                \A k \in 1..Len(worlds[1].customers) :
                    worlds[1].customers[k].membership = 0 =>
                        IF worlds[1].p.renew_financing
                        THEN /\ worlds'[1].customers[k].membership = 1
                             /\ worlds'[1].customers[k].patch_month = 1
                             /\ worlds'[1].customers[k].financing_round
                                    = worlds[1].customers[k].financing_round + 1
                             /\ worlds'[1].customers[k].gross_debt
                                    = worlds'[1].customers[k].installment
                                          * worlds'[1].customers[k].duration
                             /\ worlds'[1].customers[k].cum_debt
                                    = worlds[1].customers[k].cum_debt
                                          + worlds'[1].customers[k].gross_debt
                             /\ worlds'[1].customers[k].late_payment <= 1
                        ELSE /\ worlds'[1].customers[k].membership = 0
                             /\ ~IsActive(worlds'[1].customers[k])
                             /\ Len(worlds'[1].customers)
                                    = Len(worlds[1].customers)
           /\ last'.op \notin {"step", "setup"} =>
                \A k \in 1..Len(worlds[1].customers) :
                    worlds'[1].customers[k].membership
                        = worlds[1].customers[k].membership ]_vars

\* with renew_financing disabled, a customer expelled in an earlier step is
\* still expelled after a later step, which cleared it, in a population of
\* four
C20_RetiredExpelled ==
    /\ last.op = "step"
    /\ ~worlds[1].p.renew_financing
    /\ Len(worlds[1].customers) = 4
    /\ \E k \in 1..Len(worlds[1].customers) :
           /\ worlds[1].customers[k].membership = 0
           /\ worlds[1].customers[k].late_payment = 0
           /\ worlds[1].customers[k].installment = 0

\* C21: a step that renews a customer (its financing round grows) leaves it
\* with a loan that started afresh: first month, member, at most the one
\* rating of this step counted, gross debt = installment x duration of which
\* one installment is amortized, and the cumulative paid installments, the
\* outstanding cumulative deficit and the non-performing debt holding only
\* what this step booked
C21_RenewalStartsAfresh ==
    [][last'.op = "step" =>
           \A k \in 1..Len(worlds[1].customers) :
               worlds'[1].customers[k].financing_round
                   = worlds[1].customers[k].financing_round + 1 =>
                   /\ worlds'[1].customers[k].patch_month = 1
                   /\ worlds'[1].customers[k].membership = 1
                   /\ worlds'[1].customers[k].late_payment
                          + worlds'[1].customers[k].on_time_payment <= 1
                   /\ worlds'[1].customers[k].gross_debt
                          = worlds'[1].customers[k].installment
                                * worlds'[1].customers[k].duration
                   /\ worlds'[1].customers[k].debt
                          = worlds'[1].customers[k].gross_debt
                                - worlds'[1].customers[k].installment
                   /\ worlds'[1].customers[k].performing_debt
                          = worlds'[1].customers[k].debt
                   /\ worlds'[1].customers[k].cum_paid_installment
                          = worlds'[1].customers[k].paid_installment
                   /\ worlds'[1].customers[k].cumulative_deficit
                          = worlds'[1].customers[k].deficit
                                - worlds'[1].customers[k].compensation_received
                                - worlds'[1].customers[k].additional_compensation
                   /\ worlds'[1].customers[k].non_performing_debt
                          = worlds'[1].customers[k].cumulative_deficit]_vars

\* C22: the contribution a customer that is ACTIVE in a step pays in it is
\* its contribution rate x its installment x (1 - shock x unpaid fraction),
\* shock and unpaid fraction being the ones it held when the step began
\* (the previous roll), not the ones the step rolls; a customer that is not
\* ACTIVE pays 0; total_contribution is the sum over all customers
C22_ContributionOnPreviousShock ==
    [][last'.op = "step" =>
           /\ \A k \in 1..Len(worlds[1].customers) :
                  worlds'[1].customers[k].paid_contribution =
                      IF IsActive(worlds'[1].customers[k])
                      THEN (worlds'[1].customers[k].d_contribution
                              * (((Milli - worlds[1].customers[k].shock
                                      * worlds[1].customers[k].insolvency_fraction)
                                    * worlds'[1].customers[k].installment)
                                 \div Milli))
                           \div Scale
                      ELSE 0
           /\ worlds'[1].total_contribution
                  = SumField(worlds'[1].customers, "paid_contribution")]_vars

\* the last step took from an ACTIVE customer a contribution below its rate
\* on the full installment, and rolled no shock for it
C22_ReducedContribution ==
    /\ last.op = "step"
    /\ \E k \in 1..Len(worlds[1].customers) :
           /\ IsActive(worlds[1].customers[k])
           /\ worlds[1].customers[k].shock = 0
           /\ worlds[1].customers[k].paid_contribution > 0
           /\ worlds[1].customers[k].paid_contribution
                  < (worlds[1].customers[k].d_contribution
                       * worlds[1].customers[k].installment) \div Scale

\* C23: the behavioural risk calculate_rating leaves on a customer blends
\* its self term with a peer term that is the mean behavioural risk of its
\* active neighbours (their sum divided by their number), or the customer's
\* own behavioural risk when it has no active neighbour; "active" read
\* either as ACTIVE (within the loan term and a member) or as the member
\* test calculate_rating itself applies
C23_PeerTermOverActive ==
    [][last'.op = "calculate_rating" =>
           LET cs == worlds[1].customers
               c == cs[last'.k]
               after == worlds'[1].customers[last'.k]
               active == {j \in 1..Len(c.neighbors) :
                              IsActive(cs[c.neighbors[j] + 1])}
               member == {j \in 1..Len(c.neighbors) :
                              cs[c.neighbors[j] + 1].membership = 1}
               total == SumSeq([j \in 1..Len(c.neighbors) |->
                                   IF j \in active
                                   THEN cs[c.neighbors[j] + 1].b_risk ELSE 0])
               totalm == SumSeq([j \in 1..Len(c.neighbors) |->
                                   IF j \in member
                                   THEN cs[c.neighbors[j] + 1].b_risk ELSE 0])
               peer == IF active = {} THEN c.b_risk
                       ELSE total \div Cardinality(active)
               peerm == IF member = {} THEN c.b_risk
                       ELSE totalm \div Cardinality(member)
               self == c.alpha_1 * after.p_day
                           - (c.alpha_2 * c.std_premium) \div Milli
           IN  \/ after.b_risk =
                   Max(Milli,
                       ((Milli - c.lamda) * self + c.lamda * peer) \div Milli)
               \/ after.b_risk =
                   Max(Milli,
                       ((Milli - c.lamda) * self + c.lamda * peerm) \div Milli)]_vars

\* C24: the rating pass of a step takes the customers in id order and rates
\* each in place: the behavioural risk it leaves on a customer that is ACTIVE
\* when the pass reaches it is the blend of its self term with the peer term
\* read from a population in which every lower id already holds the value
\* this step gave it and every higher id still holds the value it had when
\* the pass began
C24_RatingInPlace ==
    [][(last'.op = "step" /\ worlds'[1].error = "none") =>
           LET mid == CalculateRenewFinancing(StepTick(Call(1))).w.customers
               post == worlds'[1].customers
               mixed(k) == [j \in 1..Len(mid) |->
                               IF j < k THEN post[j] ELSE mid[j]]
               self(k) == mid[k].alpha_1 * post[k].p_day
                              - (mid[k].alpha_2 * mid[k].std_premium) \div Milli
           IN  \A k \in 1..Len(mid) :
                   post[k].b_risk =
                       IF IsActive(mid[k])
                       THEN Max(Milli,
                                ((Milli - mid[k].lamda) * self(k)
                                     + mid[k].lamda * PeerTerm(mixed(k), k))
                                  \div Milli)
                       ELSE mid[k].b_risk]_vars

\* the last step rated a customer whose higher-id neighbour and lower-id
\* neighbour were both rated in the same pass
C24_RatedBetweenNeighbours ==
    /\ last.op = "step"
    /\ worlds[1].error = "none"
    /\ worlds[1].p.incentive_system
    /\ \E k \in 2..(Len(worlds[1].customers) - 1) :
           /\ IsActive(worlds[1].customers[k])
           /\ \E i \in 1..Len(worlds[1].customers[k].neighbors) :
                  /\ worlds[1].customers[k].neighbors[i] + 1 < k
                  /\ IsActive(worlds[1].customers[
                                  worlds[1].customers[k].neighbors[i] + 1])
           /\ \E j \in 1..Len(worlds[1].customers[k].neighbors) :
                  /\ worlds[1].customers[k].neighbors[j] + 1 > k
                  /\ IsActive(worlds[1].customers[
                                  worlds[1].customers[k].neighbors[j] + 1])

\* C24 as stated: a customer rated in a step reads, for a neighbour with a
\* lower id, the value this step gave it and, for a neighbour with a higher
\* id, the value the previous step left on it
C24_HigherIdFromPreviousStep ==
    [][(last'.op = "step" /\ worlds'[1].error = "none") =>
           LET mid == CalculateRenewFinancing(StepTick(Call(1))).w.customers
               pre == worlds[1].customers
               post == worlds'[1].customers
               mixed(k) == [j \in 1..Len(mid) |->
                               IF j < k THEN post[j] ELSE pre[j]]
               self(k) == mid[k].alpha_1 * post[k].p_day
                              - (mid[k].alpha_2 * mid[k].std_premium) \div Milli
           IN  \A k \in 1..Len(mid) :
                   IsActive(mid[k]) =>
                       post[k].b_risk =
                           Max(Milli,
                               ((Milli - mid[k].lamda) * self(k)
                                    + mid[k].lamda * PeerTerm(mixed(k), k))
                                 \div Milli)]_vars

\* C25: after a step with the incentive system on, the contribution rate of
\* every ACTIVE customer is base_rate/100 + premium_increment/100 x (day - 1)
\* for the day the step gave it, its day is at least 1 and the rate is not
\* below base_rate/100, whatever the configured parameters
C25_RateFromDay ==
    (last.op = "step" /\ worlds[1].error = "none"
        /\ worlds[1].p.incentive_system) =>
        \A k \in 1..Len(worlds[1].customers) :
            IsActive(worlds[1].customers[k]) =>
                /\ worlds[1].customers[k].day >= 1
                /\ worlds[1].customers[k].d_contribution =
                       worlds[1].p.base_rate
                           + worlds[1].p.premium_increment
                                 * (worlds[1].customers[k].day - 1)
                /\ worlds[1].customers[k].d_contribution
                       >= worlds[1].p.base_rate

\* C26: in a step with adjust_compensation on in which the fund's net assets
\* exceed the sum S of the customers' outstanding cumulative deficits, the
\* additional compensation of every ACTIVE customer is the smaller of
\* (its cumulative deficit / S) x (net assets - S) and its cumulative
\* deficit, and its non-performing debt is its cumulative deficit less that
\* amount; in every other case the additional compensation is 0
C26_ProRataSurplus ==
    [][(last'.op = "step" /\ worlds'[1].error = "none") =>
           LET m == CompensationPass(
                        StepLedger(CalculateRenewFinancing(StepTick(Call(1))))).w
               S == SumField(m.customers, "cumulative_deficit")
               surplus == m.fund.net_assets - S
               cd(k) == m.customers[k].cumulative_deficit
               add(k) == Min((((cd(k) * Scale) \div S) * surplus) \div Scale,
                             cd(k))
           IN  \A k \in 1..Len(m.customers) :
                   IF m.p.adjust_compensation /\ surplus > 0
                          /\ IsActive(m.customers[k])
                   THEN IF S > 0
                        THEN /\ worlds'[1].customers[k].additional_compensation
                                    = add(k)
                             /\ worlds'[1].customers[k].non_performing_debt
                                    = cd(k) - add(k)
                        ELSE worlds'[1].customers[k].additional_compensation = 0
                   ELSE worlds'[1].customers[k].additional_compensation = 0]_vars

\* C27: after every step each customer's non-performing debt is its
\* outstanding cumulative deficit, which is what it was before the step plus
\* the step's deficit less the period and additional compensation of the
\* step, and is never negative; an ACTIVE customer's compensation received
\* is its share x its deficit, with 0 <= compensation <= deficit <= installment
C27_NonPerformingIsOutstanding ==
    [][(last'.op = "step" /\ worlds'[1].error = "none") =>
           \A k \in 1..Len(worlds'[1].customers) :
               /\ worlds'[1].customers[k].non_performing_debt
                      = worlds'[1].customers[k].cumulative_deficit
               /\ worlds'[1].customers[k].non_performing_debt >= 0
               /\ worlds'[1].customers[k].cumulative_deficit
                      = worlds[1].customers[k].cumulative_deficit
                          + worlds'[1].customers[k].deficit
                          - worlds'[1].customers[k].compensation_received
                          - worlds'[1].customers[k].additional_compensation
               /\ IsActive(worlds'[1].customers[k]) =>
                      (/\ worlds'[1].customers[k].compensation_received
                              = (worlds'[1].customers[k].compensation_share
                                   * worlds'[1].customers[k].deficit) \div Milli
                       /\ 0 <= worlds'[1].customers[k].compensation_received
                       /\ worlds'[1].customers[k].compensation_received
                              <= worlds'[1].customers[k].deficit
                       /\ worlds'[1].customers[k].deficit
                              <= worlds'[1].customers[k].installment)]_vars

\* the last step paid an ACTIVE customer a period compensation for part of
\* its deficit and left it a positive non-performing debt
C27_PartlyCompensated ==
    /\ last.op = "step"
    /\ worlds[1].error = "none"
    /\ \E k \in 1..Len(worlds[1].customers) :
           /\ IsActive(worlds[1].customers[k])
           /\ worlds[1].customers[k].compensation_received > 0
           /\ worlds[1].customers[k].compensation_received
                  < worlds[1].customers[k].deficit
           /\ worlds[1].customers[k].non_performing_debt > 0

\* C28: after setup() and after every step the bank's assets are its cash
\* plus its receivables and its receivables are the sum over all customers
\* of performing and non-performing debt; a step changes the cash by the
\* installments paid in it plus the compensation paid in it less the debt
\* newly issued in it (the gross debt of every customer it renewed), and it
\* runs to its end, returning its result, also when the cash ends negative
C28_BankLedger ==
    [][/\ (last'.op \in {"setup", "step"} /\ worlds'[1].error = "none") =>
              (/\ worlds'[1].bank.assets
                      = worlds'[1].bank.cash + worlds'[1].bank.receivables
               /\ worlds'[1].bank.receivables
                      = SumField(worlds'[1].customers, "performing_debt")
                          + SumField(worlds'[1].customers, "non_performing_debt"))
       /\ (last'.op = "step" /\ worlds'[1].error = "none") =>
              (/\ worlds'[1].bank.cash
                      = worlds[1].bank.cash
                          + SumField(worlds'[1].customers, "paid_installment")
                          + SumField(worlds'[1].customers, "compensation_received")
                          + SumField(worlds'[1].customers,
                                     "additional_compensation")
                          - SumSeq([k \in 1..Len(worlds'[1].customers) |->
                                       IF worlds'[1].customers[k].financing_round
                                              > worlds[1].customers[k].financing_round
                                       THEN worlds'[1].customers[k].gross_debt
                                       ELSE 0])
               /\ worlds'[1].month = worlds[1].month + 1
               /\ ret'[1] \in {"true", "false"})]_vars

\* the last step issued new debt, ended with a negative bank cash and
\* returned
C28_NegativeCash ==
    /\ last.op = "step"
    /\ worlds[1].error = "none"
    /\ worlds[1].total_new_debt > 0
    /\ worlds[1].bank.cash < 0
    /\ ret[1] \in {"true", "false"}

\* C29: zero_risk_period is the latest month so far that ended with a
\* positive non-performing debt, 0 if there was none: a step sets it to the
\* current month exactly when it ends with a positive total non-performing
\* debt and leaves it unchanged otherwise, so that it never decreases in a
\* run, and after setup() and after every step it does not exceed month
C29_ZeroRiskPeriod ==
    [][/\ (last'.op = "step" /\ worlds'[1].error = "none") =>
              (/\ worlds'[1].zero_risk_period =
                      IF SumField(worlds'[1].customers,
                                  "non_performing_debt") > 0
                      THEN worlds'[1].month
                      ELSE worlds[1].zero_risk_period
               /\ worlds'[1].zero_risk_period >= worlds[1].zero_risk_period)
       /\ (last'.op \in {"setup", "step"} /\ worlds'[1].error = "none") =>
              worlds'[1].zero_risk_period <= worlds'[1].month]_vars

\* C30: every step adds to the expelled-agent counter that get_state()
\* reports the number of customers it expelled (members when the step
\* began or renewed by it, no members when it ended), and setup() starts the
\* counter at 0, so the counter is the number of expulsions since setup()
C30_ExpelledCounted ==
    [][/\ (last'.op = "setup" /\ worlds'[1].error = "none") =>
              GetState(worlds'[1]).customers.expelled = 0
       /\ (last'.op = "step" /\ worlds'[1].error = "none") =>
              GetState(worlds'[1]).customers.expelled =
                  GetState(worlds[1]).customers.expelled
                    + Cardinality(
                          {k \in 1..Len(worlds'[1].customers) :
                               /\ worlds'[1].customers[k].membership = 0
                               /\ \/ worlds[1].customers[k].membership = 1
                                  \/ worlds'[1].customers[k].financing_round
                                         > worlds[1].customers[k].financing_round})]_vars

\* C31: in every snapshot get_state() returns, customers.active is the
\* number of customers that are ACTIVE (patch_month <= duration and
\* membership = 1)
C31_ActiveCountsActive ==
    \A i \in 1..Len(snap[1]) :
        snap[1][i].customers.active =
            Cardinality({k \in 1..Len(worlds[1].customers) :
                             IsActive(worlds[1].customers[k])})

\* C32: a loan is amortized in full within its term: when a step finds a
\* customer past its term for the first time (it was a member within its
\* term when the step began, and the step's tick takes patch_month beyond
\* duration), the debt the customer holds before the renewal/exit pass is 0,
\* for a loan of setup() and for a renewed loan alike
C32_AmortizedInTerm ==
    [][last'.op = "step" =>
           \A k \in 1..Len(worlds[1].customers) :
               (/\ worlds[1].customers[k].membership = 1
                /\ worlds[1].customers[k].patch_month
                       <= worlds[1].customers[k].duration
                /\ worlds[1].customers[k].patch_month + 1
                       > worlds[1].customers[k].duration) =>
                   worlds[1].customers[k].debt = 0]_vars

\* C33: with renew_financing disabled, every customer the renewal/exit pass
\* of a step clears (past its term after the step's tick, or expelled when
\* the step began) has performing debt 0 after the step, and once all
\* customers are cleared the snapshot's total performing debt is 0
C33_ClearedOwesNothing ==
    [][(last'.op = "step" /\ worlds'[1].error = "none"
          /\ ~worlds[1].p.renew_financing) =>
           LET cleared == {k \in 1..Len(worlds[1].customers) :
                               \/ worlds[1].customers[k].patch_month + 1
                                      > worlds[1].customers[k].duration
                               \/ worlds[1].customers[k].membership = 0}
           IN  /\ \A k \in cleared :
                      worlds'[1].customers[k].performing_debt = 0
               /\ cleared = 1..Len(worlds[1].customers) =>
                      GetState(worlds'[1]).metrics.performing_debt = 0]_vars

\* C34: a step that renews no customer leaves bank.assets as it was (what
\* the cash gains from paid installments and compensation is what performing
\* plus non-performing debt lose), and with renew_financing disabled
\* bank.assets is the total debt of setup() after every step
C34_AssetsConserved ==
    [][(last'.op = "step" /\ worlds'[1].error = "none") =>
           /\ (\A k \in 1..Len(worlds[1].customers) :
                   worlds'[1].customers[k].financing_round
                       = worlds[1].customers[k].financing_round) =>
                  (/\ worlds'[1].bank.assets = worlds[1].bank.assets
                   /\ worlds'[1].bank.cash - worlds[1].bank.cash
                          = worlds[1].bank.receivables
                              - worlds'[1].bank.receivables)
           /\ ~worlds[1].p.renew_financing =>
                  worlds'[1].bank.assets = worlds'[1].total_debt]_vars

\* the last step renewed nobody, booked a deficit that was compensated in
\* part, and moved value from the bank's receivables to its cash
C34_CashForReceivables ==
    /\ last.op = "step"
    /\ worlds[1].error = "none"
    /\ worlds[1].total_new_debt = 0
    /\ worlds[1].total_deficit > 0
    /\ worlds[1].total_compensation > 0
    /\ worlds[1].total_compensation < worlds[1].total_deficit
    /\ worlds[1].bank.cash > 0
    /\ worlds[1].bank.receivables < worlds[1].total_debt
    /\ worlds[1].bank.assets = worlds[1].total_debt

\* C35: the compensation a step pays out, period and additional compensation
\* summed over all customers, does not exceed the net assets the fund held
\* when the step began
C35_CompensationWithinNetAssets ==
    [][(last'.op = "step" /\ worlds'[1].error = "none") =>
           /\ worlds'[1].total_compensation
                  = SumField(worlds'[1].customers, "compensation_received")
                      + SumField(worlds'[1].customers,
                                 "additional_compensation")
           /\ worlds'[1].total_compensation
                  <= worlds[1].fund.net_assets]_vars

\* C36: every step adds its total contribution, the sum of the customers'
\* paid contributions and never negative, to fund.assets and takes nothing
\* from it, so fund.assets never decreases across the steps of a run
C36_FundAssetsGrow ==
    [][(last'.op = "step" /\ worlds'[1].error = "none") =>
           /\ worlds'[1].total_contribution
                  = SumField(worlds'[1].customers, "paid_contribution")
           /\ \A k \in 1..Len(worlds'[1].customers) :
                  worlds'[1].customers[k].paid_contribution >= 0
           /\ worlds'[1].fund.assets
                  = worlds[1].fund.assets + worlds'[1].total_contribution
           /\ worlds'[1].fund.assets >= worlds[1].fund.assets]_vars

\* the last step paid compensation and collected contributions, in a run
\* whose fund had already grown beyond its initial assets
C36_GrownAfterPaying ==
    /\ last.op = "step"
    /\ worlds[1].error = "none"
    /\ calls[1].steps >= 2
    /\ worlds[1].total_compensation > 0
    /\ worlds[1].total_contribution > 0
    /\ worlds[1].fund.assets > FundSetup.assets + worlds[1].total_contribution

\* C37: the snapshot read after a setup() that did not raise, on a fresh
\* World or on one already stepped, reports month 0, zero_risk_period 0,
\* expelled 0, every per-step and cumulative total 0, fund assets and net
\* assets 100 and bank cash 0
C37_SetupReinitializes ==
    (last.op = "setup" /\ worlds[1].error = "none") =>
        /\ GetState(worlds[1]).month = 0
        /\ GetState(worlds[1]).metrics.zero_risk_period = 0
        /\ GetState(worlds[1]).customers.expelled = 0
        /\ GetState(worlds[1]).totals
               = [ contribution |-> 0, deficit |-> 0, compensation |-> 0,
                   paid_installment |-> 0, new_debt |-> 0,
                   cum_deficit |-> 0, cum_paid_installment |-> 0 ]
        /\ GetState(worlds[1]).fund
               = [assets |-> 100 * Unit, net_assets |-> 100 * Unit]
        /\ GetState(worlds[1]).bank.cash = 0

\* C38: a caller that keeps calling step() is eventually returned false, and
\* a step() that follows one that returned false returns false too
C38_StopsAndStaysStopped ==
    /\ <>(last.op = "step" /\ ret[1] = "false")
    /\ [][(last.op = "step" /\ ret[1] = "false" /\ last'.op = "step")
              => ret'[1] = "false"]_vars

\* step() has returned false twice in a row, the second time beyond the
\* stop bound
C38_FalseAgain ==
    /\ last.op = "step"
    /\ ret[1] = "false"
    /\ calls[1].steps >= 2
    /\ worlds[1].month >
           (IF worlds[1].p.renew_financing THEN worlds[1].p.no_of_periods
                                           ELSE worlds[1].p.max_periods)

\* C39: a POST /api/step that follows a successful POST /api/setup runs
\* World.step() and answers with the new state, the month advanced by one;
\* a GET /api/state after a successful setup answers with the state; and
\* either route answers with its rejection (status 400) only when no setup
\* has been performed
C39_StepAfterSetup ==
    [][/\ (last.op = "api_setup" /\ last.status = 200
             /\ last'.op = "api_step") =>
              (/\ last'.status = 200
               /\ worlds'[1].month = worlds[1].month + 1)
       /\ (last.op = "api_setup" /\ last.status = 200
             /\ last'.op = "api_state") =>
              last'.status = 200
       /\ (last'.op \in {"api_step", "api_state"} /\ last'.status = 400) =>
              calls[1].setup = 0]_vars

============================================================================
